---- MODULE Spec2Model ----
(***************************************************************************)
(* Model of weather_etl.py: the WeatherExtractor pipeline.                 *)
(*                                                                         *)
(* A process run (WeatherExtractor().main()) is the forecast pass followed *)
(* by the history pass.  Every unit of work is one call of fetch_data      *)
(* (the retry wrapper around the HTTP GET) and, when the result is truthy, *)
(* one call of extract_and_write.  The city files outlive a run, the       *)
(* city_records ledger does not.                                           *)
(*                                                                         *)
(* The environment is the weather API (what each HTTP GET attempt does),   *)
(* the file system (whether an open() raises) and the clock.  The nominal  *)
(* API answer is the documented payload for the requested city and dates;  *)
(* every departure from it (failed attempt, unexpected payload shape, I/O  *)
(* error) is a deviation, and so is a night that passes between two runs;  *)
(* a behaviour holds at most MaxDeviations deviations.                     *)
(*                                                                         *)
(* Payload dates are the non-empty YYYY-MM-DD strings of the API; a field  *)
(* the code subscripts may be absent (KeyError).                           *)
(***************************************************************************)
EXTENDS Integers, Sequences, FiniteSets, TLC

\* ---- bounds of the model ----
MaxRuns == 2
MaxDeviations == 1
MaxRetryParam == 3

\* ---- program constants ----
NoOfRetries == 3
InitialDelay == 2
Backoff == TRUE
ForecastDays == 3
HistoryDays == 3

\* self.cities, as read from secrets.ini
Cities == <<"New York", "Pune">>

\* self.header
Header == <<"Date", "Location", "Country", "Min_Temp", "Max_Temp", "Humidity", "Air_Quality", "Type">>

\* strftime('%Y-%m-%d') of the day numbers the model uses
Calendar == <<"2026-10-29", "2026-10-30", "2026-10-31", "2026-11-01", "2026-11-02",
              "2026-11-03", "2026-11-04", "2026-11-05", "2026-11-06", "2026-11-07",
              "2026-11-08", "2026-11-09">>
FirstToday == 4
DateStr(n) == Calendar[n]

\* str.replace(' ', '_') on the location names of the model
Replace(s) == CASE s = "New York" -> "New_York"
                [] OTHER -> s

\* str.upper() on the two modes
Upper_Identity(s) == s
Upper(s) == CASE s = "forecast" -> "FORECAST"
              [] s = "history" -> "HISTORY"
              [] OTHER -> s

\* Python's None and a returned JSON document
None == [isNone |-> TRUE]
Some(p) == [isNone |-> FALSE, json |-> p]
EmptyDict == [k \in {} |-> ""]
Has(d, k) == k \in DOMAIN d

\* `if data:` -- None and the empty document are falsy
Truthy_Always(d) == TRUE
Truthy(d) == (~d.isNone) /\ (DOMAIN d.json # {})

\* ---- the weather API: payloads ----
CountryOf(name) == IF name = "New York" THEN "USA" ELSE "India"
DayEntry(date) == [date |-> date,
                   day |-> [mintemp_c |-> "11.2", maxtemp_c |-> "19.8", avghumidity |-> "64"]]
BadDayEntry(date) == [date |-> date]
WithAirQuality == [air_quality |-> [co |-> "230.3"]]

\* the dates the API answers with: `days` from the forecast start, or the one history date
UnitDates(mode, dnum) ==
  IF mode = "forecast" THEN [k \in 1..ForecastDays |-> DateStr(dnum + k - 1)]
  ELSE <<DateStr(dnum)>>

\* the documented answer: forecast.json?aqi=yes carries current.air_quality, history.json has no `current`
NominalPayload(mode, city, dnum) ==
  LET base == [location |-> [name |-> city, country |-> CountryOf(city)],
               forecast |-> [forecastday |-> [k \in DOMAIN UnitDates(mode, dnum) |-> DayEntry(UnitDates(mode, dnum)[k])]]]
  IN IF mode = "forecast" THEN base @@ [current |-> WithAirQuality] ELSE base

OtherCity(city) == IF city = Cities[1] THEN Cities[2] ELSE Cities[1]

\* answers that depart from the documented one in one respect
DeviantPayloads(mode, city, dnum) ==
  LET nom == NominalPayload(mode, city, dnum)
      days == nom.forecast.forecastday
      n == Len(days)
      noCur == [k \in DOMAIN nom \ {"current"} |-> nom[k]]
      \* the API resolves the query to another location
      otherName == {[nom EXCEPT !.location = [name |-> OtherCity(city), country |-> CountryOf(OtherCity(city))]]}
      \* the k-th forecast day lacks its `day` object
      badDay == {[nom EXCEPT !.forecast.forecastday[k] = BadDayEntry(days[k].date)] : k \in 1..n}
      \* two forecast days carry the same date
      dupDate == IF n >= 2 THEN {[nom EXCEPT !.forecast.forecastday[2] = DayEntry(days[1].date)]} ELSE {}
      \* no `location` object
      noLoc == {[k \in DOMAIN nom \ {"location"} |-> nom[k]]}
      \* air quality: absent `current`, `current` without air_quality, air_quality without co, or present
      airQ == {noCur,
               noCur @@ [current |-> EmptyDict],
               noCur @@ [current |-> [air_quality |-> EmptyDict]],
               noCur @@ [current |-> WithAirQuality]}
  IN (otherName \cup badDay \cup dupDate \cup noLoc \cup airQ) \ {nom}

Payloads(mode, city, dnum) == {NominalPayload(mode, city, dnum)} \cup DeviantPayloads(mode, city, dnum)

\* ---- the weather API: what the HTTP GET attempts of one fetch_data call do ----
\* "ok": the GET and the JSON parse succeed; "net": an allow-listed requests exception
\* (ConnectTimeout, HTTPError, ReadTimeout, Timeout, ConnectionError); "other": any other exception
Ok(p) == [kind |-> "ok", json |-> p]
NetError == [kind |-> "net"]
OtherError == [kind |-> "other"]
NetFails(k) == [i \in 1..k |-> NetError]

\* a script lists the outcome of attempt 1, 2, ... as far as a caller can ask for them:
\* an immediate answer, an answer at the last attempt, a non-network exception (at once or at the
\* last attempt), or a network error at every attempt
Scripts(mode, city, dnum) ==
       {<<Ok(p)>> : p \in Payloads(mode, city, dnum)}
  \cup {NetFails(NoOfRetries - 1) \o <<Ok(NominalPayload(mode, city, dnum))>>}
  \cup {NetFails(k) \o <<OtherError>> : k \in {0, NoOfRetries - 1}}
  \cup {NetFails(NoOfRetries)}
FailingScripts(mode, city, dnum) == {s \in Scripts(mode, city, dnum) : s[1].kind # "ok"}
NominalScript(mode, city, dnum) == <<Ok(NominalPayload(mode, city, dnum))>>

\* ---- fetch_data ----
\* the decorated function body: `except Exception` catches every outcome that is not a success
FetchBody_NoCatch(outcome) ==
  IF outcome.kind = "ok" THEN [exc |-> "none", ret |-> Some(outcome.json)]
  ELSE [exc |-> outcome.kind, ret |-> None]
FetchBody(outcome) ==
  IF outcome.kind = "ok" THEN [exc |-> "none", ret |-> Some(outcome.json)]
  ELSE [exc |-> "none", ret |-> None]

\* the retry wrapper: `for attempt in range(1, no_of_retries + 1)`
RECURSIVE RetryLoop(_, _, _, _)
RetryLoop(script, attempt, delay, sleeps) ==
  IF attempt > NoOfRetries
  THEN [raised |-> FALSE, ret |-> None, attempts |-> attempt - 1, sleeps |-> sleeps, exhausted |-> TRUE]
  ELSE LET r == FetchBody(script[attempt]) IN
       IF r.exc = "none"
       THEN [raised |-> FALSE, ret |-> r.ret, attempts |-> attempt, sleeps |-> sleeps, exhausted |-> FALSE]
       ELSE IF r.exc = "net"
       THEN RetryLoop(script, attempt + 1, IF Backoff THEN delay * 2 ELSE delay, Append(sleeps, delay))
       ELSE [raised |-> TRUE, ret |-> None, attempts |-> attempt, sleeps |-> sleeps, exhausted |-> FALSE]

\* fetch_data as its callers see it
FetchData(script) == RetryLoop(script, 1, InitialDelay, <<>>)

\* ---- the retry decorator, for any parameters and any wrapped function ----
\* what one call of the wrapped function does: it returns a value, or raises an allow-listed
\* network exception ("net") or another exception ("other")
Returned(v) == [exc |-> "none", ret |-> v]
Raised(kind) == [exc |-> kind, ret |-> None]
WrappedOutcomes == {Returned(Some(EmptyDict)), Returned(None), Raised("net"), Raised("other")}

\* the initial_delay values of the model: the one of fetch_data and the default
RetryDelays == {InitialDelay, 5}

\* wrapper(*args, **kwargs) from attempt `attempt` on; results[k] is what the k-th call of func does
RECURSIVE Wrapper(_, _, _, _, _, _)
Wrapper(no_of_retries, backoff, results, attempt, delay, sleeps) ==
  IF attempt > no_of_retries
  THEN [raised |-> FALSE, ret |-> None, attempts |-> attempt - 1, sleeps |-> sleeps, exhausted |-> TRUE]
  ELSE IF results[attempt].exc = "none"
  THEN [raised |-> FALSE, ret |-> results[attempt].ret, attempts |-> attempt, sleeps |-> sleeps,
        exhausted |-> FALSE]
  ELSE IF results[attempt].exc = "net"
  THEN Wrapper(no_of_retries, backoff, results, attempt + 1, IF backoff THEN delay * 2 ELSE delay,
               Append(sleeps, delay))
  ELSE [raised |-> TRUE, ret |-> None, attempts |-> attempt, sleeps |-> sleeps, exhausted |-> FALSE]

\* a call of a function decorated with @retry(no_of_retries, initial_delay, backoff)
Retry(no_of_retries, initial_delay, backoff, results) ==
  Wrapper(no_of_retries, backoff, results, 1, initial_delay, <<>>)

\* ---- the city files ----
\* a file is absent, or a sequence of rows of text fields (the header row, when written, is the first)
AbsentFile == [exists |-> FALSE, rows |-> <<>>]
FileOf(rows) == [exists |-> TRUE, rows |-> rows]
Stems == {Replace(Replace(Cities[i])) : i \in DOMAIN Cities}

\* create_csv_for_city: mode 'w' only when the file is absent or of size 0
CreateCsvForCity_AppendHeader(city, fs, openFails) ==
  LET path == Replace(city) IN
  IF openFails THEN [raised |-> TRUE, path |-> path, files |-> fs]
  ELSE [raised |-> FALSE, path |-> path,
        files |-> [fs EXCEPT ![path] = FileOf(Append(fs[path].rows, Header))]]
CreateCsvForCity_Always(city, fs, openFails) ==
  LET path == Replace(city) IN
  IF openFails THEN [raised |-> TRUE, path |-> path, files |-> fs]
  ELSE [raised |-> FALSE, path |-> path, files |-> [fs EXCEPT ![path] = FileOf(<<Header>>)]]
CreateCsvForCity(city, fs, openFails) ==
  LET path == Replace(city) IN
  IF (~fs[path].exists) \/ fs[path].rows = <<>>
  THEN IF openFails THEN [raised |-> TRUE, path |-> path, files |-> fs]
       ELSE [raised |-> FALSE, path |-> path, files |-> [fs EXCEPT ![path] = FileOf(<<Header>>)]]
  ELSE [raised |-> FALSE, path |-> path, files |-> fs]

\* csv.DictReader: the first row names the columns; row.get(col) of a later row ("" stands for None)
RowGet(names, row, col) ==
  LET idx == {i \in DOMAIN names : names[i] = col /\ i \in DOMAIN row} IN
  IF idx = {} THEN "" ELSE row[CHOOSE i \in idx : \A j \in idx : i <= j]

\* the hydration loop: the (Date, Type) of every row whose two fields are non-empty
ReadKeys_Nothing(rows) == {}
ReadKeys(rows) ==
  IF rows = <<>> THEN {}
  ELSE {<<RowGet(rows[1], rows[i], "Date"), RowGet(rows[1], rows[i], "Type")>> :
          i \in {j \in 2..Len(rows) : RowGet(rows[1], rows[j], "Date") # "" /\ RowGet(rows[1], rows[j], "Type") # ""}}

\* data.get('current', {}).get('air_quality', {}).get('co', 'N/A')
AirQuality_NoDefault(data) ==
  IF Has(data, "current") /\ Has(data.current, "air_quality") /\ Has(data.current.air_quality, "co")
  THEN data.current.air_quality.co ELSE ""
AirQuality(data) ==
  IF ~Has(data, "current") THEN "N/A"
  ELSE IF ~Has(data.current, "air_quality") THEN "N/A"
  ELSE IF ~Has(data.current.air_quality, "co") THEN "N/A"
  ELSE data.current.air_quality.co

\* the subscripts the row of one forecast day needs; a missing one raises KeyError
DayWellFormed(data, day_data) ==
  /\ Has(day_data, "day") /\ Has(day_data, "date")
  /\ Has(data.location, "country")
  /\ Has(day_data.day, "mintemp_c") /\ Has(day_data.day, "maxtemp_c") /\ Has(day_data.day, "avghumidity")

\* the row dict of one forecast day
BuildRow_LocationCountry(data, day_data, mode) ==
  [Date |-> day_data.date,
   Location |-> data.location.country,
   Country |-> data.location.country,
   Min_Temp |-> day_data.day.mintemp_c,
   Max_Temp |-> day_data.day.maxtemp_c,
   Humidity |-> day_data.day.avghumidity,
   Air_Quality |-> AirQuality(data),
   Type |-> Upper(mode)]
BuildRow(data, day_data, mode) ==
  [Date |-> day_data.date,
   Location |-> data.location.name,
   Country |-> data.location.country,
   Min_Temp |-> day_data.day.mintemp_c,
   Max_Temp |-> day_data.day.maxtemp_c,
   Humidity |-> day_data.day.avghumidity,
   Air_Quality |-> AirQuality(data),
   Type |-> Upper(mode)]

\* csv.DictWriter(fieldnames=self.header).writerow: the fields in header order
WriteRow(row) == [i \in DOMAIN Header |-> row[Header[i]]]

\* ---- the file system: which open() of one extract_and_write call raises ----
\* "create": the open(.., 'w') of create_csv_for_city; "read": the open(.., 'r') of the hydration;
\* "append": the open(.., 'a') of the forecast day number `at`
NoFault == [kind |-> "none", at |-> 0]
IOFaults == {NoFault, [kind |-> "create", at |-> 0], [kind |-> "read", at |-> 0]}
            \cup {[kind |-> "append", at |-> k] : k \in 1..ForecastDays}

\* ---- extract_and_write ----
\* (a value that several places use is bound once, \E-style, as the single element of a set)

\* the loop over forecast_days, from day k on; an exception leaves what was done so far
RECURSIVE DayLoop_KeyFirst(_, _, _, _, _, _, _, _, _, _)
DayLoop_KeyFirst(data, mode, k, path, city, fs, recs, io, wrote, skipped) ==
  LET days == data.forecast.forecastday
      stopped(exc, fired, rs) == [raised |-> exc, ioFired |-> fired, files |-> fs, recs |-> rs,
                                  wrote |-> wrote, skipped |-> skipped]
  IN
  IF k > Len(days) THEN stopped(FALSE, FALSE, recs)
  ELSE IF ~DayWellFormed(data, days[k]) THEN stopped(TRUE, FALSE, recs)
  ELSE CHOOSE res \in
         {IF <<row.Date, row.Type>> \notin recs[city]
          THEN IF io.kind = "append" /\ io.at = k
               THEN stopped(TRUE, TRUE, [recs EXCEPT ![city] = @ \cup {<<row.Date, row.Type>>}])
               ELSE CHOOSE r \in
                      {DayLoop_KeyFirst(data, mode, k + 1, path, city, fs2, recs2, io, wrote + 1, skipped) :
                         fs2 \in {[fs EXCEPT ![path].rows = Append(@, WriteRow(row))]},
                         recs2 \in {[recs EXCEPT ![city] = @ \cup {<<row.Date, row.Type>>}]}} : TRUE
          ELSE DayLoop_KeyFirst(data, mode, k + 1, path, city, fs, recs, io, wrote, skipped + 1) :
            row \in {BuildRow(data, days[k], mode)}} : TRUE
RECURSIVE DayLoop(_, _, _, _, _, _, _, _, _, _)
DayLoop(data, mode, k, path, city, fs, recs, io, wrote, skipped) ==
  LET days == data.forecast.forecastday
      stopped(exc, fired) == [raised |-> exc, ioFired |-> fired, files |-> fs, recs |-> recs,
                              wrote |-> wrote, skipped |-> skipped]
  IN
  IF k > Len(days) THEN stopped(FALSE, FALSE)
  ELSE IF ~DayWellFormed(data, days[k]) THEN stopped(TRUE, FALSE)
  ELSE CHOOSE res \in
         {IF <<row.Date, row.Type>> \notin recs[city]
          THEN IF io.kind = "append" /\ io.at = k
               THEN stopped(TRUE, TRUE)
               ELSE CHOOSE r \in
                      {DayLoop(data, mode, k + 1, path, city, fs2, recs2, io, wrote + 1, skipped) :
                         fs2 \in {[fs EXCEPT ![path].rows = Append(@, WriteRow(row))]},
                         recs2 \in {[recs EXCEPT ![city] = @ \cup {<<row.Date, row.Type>>}]}} : TRUE
          ELSE DayLoop(data, mode, k + 1, path, city, fs, recs, io, wrote, skipped + 1) :
            row \in {BuildRow(data, days[k], mode)}} : TRUE

\* the ledger after the `if city not in self.city_records` block
Hydrated(city, file, recs) ==
  IF city \in DOMAIN recs THEN recs
  ELSE IF file.exists THEN (city :> ReadKeys(file.rows)) @@ recs
  ELSE (city :> {}) @@ recs

\* the `try` body after create_csv_for_city returned c: hydration, then the loop
HydrateAndLoop(data, mode, city, c, recs, io) ==
  LET failed(r, fired) == [raised |-> TRUE, ioFired |-> fired, files |-> c.files, recs |-> r,
                           wrote |-> 0, skipped |-> 0]
  IN
  IF city \notin DOMAIN recs /\ c.files[c.path].exists /\ io.kind = "read"
  THEN failed((city :> {}) @@ recs, TRUE)
  ELSE CHOOSE res \in
         {IF ~Has(data, "forecast") \/ ~Has(data.forecast, "forecastday")
          THEN failed(h, FALSE)
          ELSE DayLoop(data, mode, 1, c.path, city, c.files, h, io, 0, 0) :
            h \in {Hydrated(city, c.files[c.path], recs)}} : TRUE

\* the body of the `try`: `raised` tells that an exception left it
ExtractBody(data, mode, fs, recs, io) ==
  LET failed(fired) == [raised |-> TRUE, ioFired |-> fired, files |-> fs, recs |-> recs,
                        wrote |-> 0, skipped |-> 0]
  IN
  IF ~Has(data, "location") \/ ~Has(data.location, "name") THEN failed(FALSE)
  ELSE CHOOSE res \in
         {IF c.raised THEN failed(TRUE)
          ELSE HydrateAndLoop(data, mode, Replace(data.location.name), c, recs, io) :
            c \in {CreateCsvForCity(Replace(data.location.name), fs, io.kind = "create")}} : TRUE

\* the whole call: `except Exception` catches whatever the body raised, nothing escapes to the caller
ExtractAndWrite_Uncaught(data, mode, fs, recs, io) ==
  LET r == ExtractBody(data, mode, fs, recs, io) IN [escaped |-> r.raised] @@ r
ExtractAndWrite(data, mode, fs, recs, io) ==
  LET r == ExtractBody(data, mode, fs, recs, io) IN [escaped |-> FALSE] @@ r

\* ---- state ----
VARIABLES
  today,         \* datetime.date.today() of the running process, as a day number
  run,           \* number of processes started so far
  pass,          \* "idle", "forecast" (run_forecast_etl), "history" (run_history_etl), "done", "crashed"
  ci,            \* index in self.cities of the loop over cities
  hi,            \* the i of `for i in range(1, 4)`; 0 in the forecast pass
  stage,         \* "fetch": about to call fetch_data; "extract": about to call extract_and_write
  data,          \* the local `data` of the pass
  files,         \* weather_data/<stem>.csv, per stem
  city_records,  \* self.city_records
  dev,           \* deviations of the environment so far (a night between two runs is one)
  mocked,        \* the API is a mock: it answers every run after the first as it answered the first
  replay,        \* the API answers this run exactly as it answered the previous one
  responses,     \* what fetch_data returned for every unit of this run, in call order (when mocked)
  prevResponses, \* the same of the previous run (when replaying)
  filesAtStart,  \* the files when this run started (when replaying)
  ioSeen,        \* some open() has raised since the start
  lastFetch,     \* the log of the last fetch_data call
  lastExtract,   \* the log of the last extract_and_write call
  fetched,       \* the units fetch_data was called for in this run, in call order
  lastRetry      \* the log of the last call of a decorated function taken on its own

vars == <<today, run, pass, ci, hi, stage, data, files, city_records, dev, mocked, replay, responses,
          prevResponses, filesAtStart, ioSeen, lastFetch, lastExtract, fetched, lastRetry>>

NoFetch == [script |-> <<>>, attempts |-> 0, sleeps |-> <<>>, exhausted |-> FALSE, ret |-> None]
Unit(mode, h, c) == [mode |-> mode, day |-> h, city |-> c]
NoExtract == [called |-> FALSE, unit |-> Unit("", 0, 0), raised |-> FALSE, wrote |-> 0, skipped |-> 0,
              before |-> AbsentFile, path |-> "", fault |-> NoFault]
NoRetry == [called |-> FALSE, no_of_retries |-> 0, initial_delay |-> 0, backoff |-> FALSE,
            results |-> <<>>, raised |-> FALSE, ret |-> None, attempts |-> 0, sleeps |-> <<>>,
            exhausted |-> FALSE]
CurrentUnit == Unit(pass, hi, ci)

\* the day the URL of the current unit asks for
RequestedDay == IF pass = "forecast" THEN today ELSE today - hi

\* the units of main() in order: the cities of the forecast pass, then per history day the cities
AllUnits ==
  [k \in 1..(Len(Cities) * (1 + HistoryDays)) |->
     IF k <= Len(Cities) THEN Unit("forecast", 0, k)
     ELSE Unit("history", ((k - Len(Cities) - 1) \div Len(Cities)) + 1, ((k - 1) % Len(Cities)) + 1)]

\* the loop heads of run_forecast_etl, run_history_etl and main: the unit after the current one
AfterUnit_ShortRange(p, h, c) ==
  IF c < Len(Cities) THEN [pass |-> p, hi |-> h, ci |-> c + 1]
  ELSE IF p = "forecast" THEN [pass |-> "history", hi |-> 1, ci |-> 1]
  ELSE IF h < HistoryDays - 1 THEN [pass |-> "history", hi |-> h + 1, ci |-> 1]
  ELSE [pass |-> "done", hi |-> h, ci |-> c]
AfterUnit(p, h, c) ==
  IF c < Len(Cities) THEN [pass |-> p, hi |-> h, ci |-> c + 1]
  ELSE IF p = "forecast" THEN [pass |-> "history", hi |-> 1, ci |-> 1]
  ELSE IF h < HistoryDays THEN [pass |-> "history", hi |-> h + 1, ci |-> 1]
  ELSE [pass |-> "done", hi |-> h, ci |-> c]

Init ==
  /\ today = FirstToday
  /\ run = 0
  /\ pass = "idle"
  /\ ci = 1
  /\ hi = 0
  /\ stage = "fetch"
  /\ data = None
  /\ files \in [Stems -> {AbsentFile, FileOf(<<>>)}]
  /\ city_records = EmptyDict
  /\ dev = 0
  /\ mocked \in BOOLEAN
  /\ replay = FALSE
  /\ responses = <<>>
  /\ prevResponses = <<>>
  /\ filesAtStart = [s \in Stems |-> AbsentFile]
  /\ ioSeen = FALSE
  /\ lastFetch = NoFetch
  /\ lastExtract = NoExtract
  /\ fetched = <<>>
  /\ lastRetry = NoRetry

\* a new process: __init__ (empty city_records) and the entry of main()
StartRun ==
  /\ pass \in {"idle", "done"}
  /\ run < MaxRuns
  /\ run' = run + 1
  /\ replay' = (mocked /\ pass = "done")
  /\ today' \in (IF replay' \/ pass = "idle" THEN {today} ELSE {today, today + 1})
  /\ dev' = dev + (today' - today)
  /\ dev' <= MaxDeviations
  /\ pass' = "forecast"
  /\ ci' = 1
  /\ hi' = 0
  /\ stage' = "fetch"
  /\ data' = None
  /\ city_records' = EmptyDict
  /\ prevResponses' = (IF replay' THEN responses ELSE <<>>)
  /\ responses' = <<>>
  /\ filesAtStart' = (IF replay' THEN files ELSE [s \in Stems |-> AbsentFile])
  /\ fetched' = <<>>
  /\ lastFetch' = NoFetch
  /\ lastExtract' = NoExtract
  /\ UNCHANGED <<files, mocked, ioSeen, lastRetry>>

\* one iteration of a pass up to the `if data:` test: build the URL, call fetch_data
FetchStep(mode) ==
  /\ pass = mode
  /\ stage = "fetch"
  /\ \E script \in (IF ~replay THEN Scripts(mode, Cities[ci], RequestedDay)
                    ELSE IF prevResponses[Len(fetched) + 1].isNone
                    THEN FailingScripts(mode, Cities[ci], RequestedDay)
                    ELSE {<<Ok(prevResponses[Len(fetched) + 1].json)>>}) :
     \E r \in {FetchData(script)} :
       LET cost == IF replay \/ script = NominalScript(mode, Cities[ci], RequestedDay) THEN 0 ELSE 1
           nxt == AfterUnit(pass, hi, ci)
       IN /\ dev + cost <= MaxDeviations
          /\ dev' = dev + cost
          /\ responses' = (IF mocked THEN Append(responses, r.ret) ELSE responses)
          /\ fetched' = Append(fetched, CurrentUnit)
          /\ lastFetch' = [script |-> script, attempts |-> r.attempts, sleeps |-> r.sleeps,
                           exhausted |-> r.exhausted, ret |-> r.ret]
          /\ data' = r.ret
          /\ IF r.raised
             THEN pass' = "crashed" /\ UNCHANGED <<ci, hi, stage>>
             ELSE IF Truthy(r.ret)
             THEN stage' = "extract" /\ UNCHANGED <<pass, ci, hi>>
             ELSE pass' = nxt.pass /\ ci' = nxt.ci /\ hi' = nxt.hi /\ UNCHANGED stage
  /\ UNCHANGED <<today, run, files, city_records, mocked, replay, prevResponses, filesAtStart,
                 ioSeen, lastExtract, lastRetry>>

\* the rest of the iteration: extract_and_write(data, mode), then the next unit
ExtractStep(mode) ==
  /\ pass = mode
  /\ stage = "extract"
  /\ \E io \in IOFaults : \E r \in {ExtractAndWrite(data.json, mode, files, city_records, io)} :
       LET cost == IF io = NoFault THEN 0 ELSE 1
           nxt == AfterUnit(pass, hi, ci)
           path == IF Has(data.json, "location") /\ Has(data.json.location, "name")
                   THEN Replace(Replace(data.json.location.name)) ELSE ""
       IN /\ io = NoFault \/ r.ioFired
          /\ dev + cost <= MaxDeviations
          /\ dev' = dev + cost
          /\ files' = r.files
          /\ city_records' = r.recs
          /\ ioSeen' = (ioSeen \/ r.ioFired)
          /\ lastExtract' = [called |-> TRUE, unit |-> CurrentUnit, raised |-> r.raised, wrote |-> r.wrote, skipped |-> r.skipped,
                             before |-> IF path = "" THEN AbsentFile ELSE files[path],
                             path |-> path, fault |-> io]
          /\ IF r.escaped
             THEN pass' = "crashed" /\ UNCHANGED <<ci, hi, stage>>
             ELSE pass' = nxt.pass /\ ci' = nxt.ci /\ hi' = nxt.hi /\ stage' = "fetch"
  /\ UNCHANGED <<today, run, data, mocked, replay, responses, prevResponses, filesAtStart,
                 lastFetch, fetched, lastRetry>>

ForecastFetch == FetchStep("forecast")
ForecastExtract == ExtractStep("forecast")
HistoryFetch == FetchStep("history")
HistoryExtract == ExtractStep("history")

Next ==
  \/ StartRun
  \/ ForecastFetch
  \/ ForecastExtract
  \/ HistoryFetch
  \/ HistoryExtract

\* the pipeline against the live API: every run gets answers of its own
InitLive == Init /\ ~mocked
Spec == InitLive /\ [][Next]_vars

\* the pipeline against a mocked API: every run after the first gets the answers of the first
InitMocked == Init /\ mocked
SpecMocked == InitMocked /\ [][Next]_vars

\* the decorator on its own: a decorated function is called, with any parameters of the decorator
\* and any behaviour of the function
RetryCall ==
  /\ pass = "idle"
  /\ \E n \in 1..MaxRetryParam, d \in RetryDelays, b \in BOOLEAN :
       \E results \in [1..n -> WrappedOutcomes] :
         lastRetry' = [called |-> TRUE, no_of_retries |-> n, initial_delay |-> d, backoff |-> b,
                       results |-> results] @@ Retry(n, d, b, results)
  /\ UNCHANGED <<today, run, pass, ci, hi, stage, data, files, city_records, dev, mocked, replay,
                 responses, prevResponses, filesAtStart, ioSeen, lastFetch, lastExtract, fetched>>

InitRetry == InitLive /\ files = [s \in Stems |-> AbsentFile]
SpecRetry == InitRetry /\ [][RetryCall]_vars

\* ---- what the claims speak about ----
\* the data rows of a city file: every row after the header row
DataRows(stem) == IF files[stem].rows = <<>> THEN <<>> ELSE Tail(files[stem].rows)
DateCol == 1
LocationCol == 2
AirQualityCol == 7
TypeCol == 8
KeyOfRow(row) == <<row[DateCol], row[TypeCol]>>

\* C1: no city file ever holds two data rows with the same (Date, Type) pair, whatever runs and
\* extract_and_write calls have happened since the files were absent or empty.
C1_NoDuplicateKeys ==
  \A stem \in Stems :
    \A i, j \in DOMAIN DataRows(stem) :
      i # j => KeyOfRow(DataRows(stem)[i]) # KeyOfRow(DataRows(stem)[j])

\* C2: a run that gets from the API, unit by unit, what the previous run got, and in which (as in
\* the previous run) every file operation succeeds, appends no row: at every point of the run and
\* at its end every city file is identical to what it was when the run started.
C2_SecondRunAppendsNothing ==
  (replay /\ ~ioSeen) => files = filesAtStart

\* a replayed run is complete, found rows of the first run in the files and skipped them
C2_Witness ==
  /\ pass = "done" /\ replay /\ ~ioSeen
  /\ files = filesAtStart
  /\ \E stem \in Stems : Len(DataRows(stem)) >= ForecastDays + HistoryDays
  /\ lastExtract.called /\ lastExtract.skipped > 0 /\ lastExtract.wrote = 0

\* the process keeps executing once started; whether another process is started is up to the operator
SpecLive == Spec /\ WF_vars(ForecastFetch \/ ForecastExtract \/ HistoryFetch \/ HistoryExtract)

\* the script and the unit of the last fetch_data call
LastScript == lastFetch.script
FetchedLast == fetched[Len(fetched)]

\* C3: a fetch whose GET fails with a network error at attempts 1 and 2 and succeeds at attempt 3
\* returns the payload of attempt 3 (what an immediate success returns), and the unit is then
\* extracted exactly once.
C3_RetryThenSuccess ==
  (/\ lastFetch.attempts > 0
   /\ Len(LastScript) = NoOfRetries
   /\ \A k \in 1..(NoOfRetries - 1) : LastScript[k].kind = "net"
   /\ LastScript[NoOfRetries].kind = "ok")
  => /\ lastFetch.ret = Some(LastScript[NoOfRetries].json)
     /\ lastFetch.attempts = NoOfRetries
     /\ \/ stage = "extract" /\ CurrentUnit = FetchedLast
        \/ lastExtract.called /\ lastExtract.unit = FetchedLast

\* C4: a fetch whose GET fails with a network error at every attempt makes exactly NoOfRetries
\* attempts, logs the exhaustion message, returns no data, writes no row, and the pass goes on
\* to the next unit.
C4_AllAttemptsFail ==
  (lastFetch.attempts > 0 /\ LastScript = NetFails(NoOfRetries))
  => /\ lastFetch.attempts = NoOfRetries
     /\ lastFetch.exhausted
     /\ lastFetch.ret = None
     /\ stage = "fetch"
     /\ ~(lastExtract.called /\ lastExtract.unit = FetchedLast)

\* a sequence is a prefix of another
IsPrefix(a, b) == Len(a) <= Len(b) /\ SubSeq(b, 1, Len(a)) = a

\* C5: no step changes or removes a row of an existing non-empty city file: the file before the
\* step is a prefix of the file after it, whether the call wrote, skipped or raised.
C5_AppendOnly ==
  [][\A stem \in Stems :
       (files[stem].exists /\ files[stem].rows # <<>>)
       => (files'[stem].exists /\ IsPrefix(files[stem].rows, files'[stem].rows))]_vars

\* a call on a file that held data rows skipped duplicates and then ended in a caught exception
C5_Witness ==
  /\ lastExtract.called /\ lastExtract.raised
  /\ Len(lastExtract.before.rows) >= 2
  /\ lastExtract.skipped >= 1
  /\ IsPrefix(lastExtract.before.rows, files[lastExtract.path].rows)

\* C6: fetch_data never raises to its caller; it returns the parsed JSON of a successful attempt
\* and None otherwise, and no attempt is made after a non-network exception.
C6_FetchNeverRaises ==
  /\ pass # "crashed"
  /\ lastFetch.attempts > 0 =>
       /\ lastFetch.attempts <= Len(LastScript)
       /\ IF LastScript[lastFetch.attempts].kind = "ok"
          THEN lastFetch.ret = Some(LastScript[lastFetch.attempts].json)
          ELSE lastFetch.ret = None
       /\ \A k \in DOMAIN LastScript : LastScript[k].kind = "other" => lastFetch.attempts <= k

\* the GET raised a non-network exception: one attempt, None returned, the pass goes on
C6_Witness ==
  /\ LastScript = <<OtherError>>
  /\ lastFetch.attempts = 1
  /\ lastFetch.ret = None
  /\ pass \in {"forecast", "history"}
  /\ stage = "fetch"

\* C7: whatever earlier units did (failed fetch, exception caught in extract_and_write), the run
\* never stops early: the units fetched so far are the first units of main() in order, a complete
\* run has fetched every unit, and a unit whose fetch returned data is extracted.
C7_FailureIsolation ==
  /\ pass # "crashed"
  /\ fetched = SubSeq(AllUnits, 1, Len(fetched))
  /\ pass = "done" => fetched = AllUnits
  /\ pass \in {"forecast", "history"} /\ stage = "fetch" => CurrentUnit = AllUnits[Len(fetched) + 1]
  /\ (fetched # <<>> /\ Truthy(lastFetch.ret)) =>
       \/ stage = "extract" /\ CurrentUnit = FetchedLast
       \/ lastExtract.called /\ lastExtract.unit = FetchedLast

\* a run is complete although an open() raised in an earlier unit; the last unit was written
C7_Witness ==
  /\ pass = "done" /\ fetched = AllUnits
  /\ ioSeen
  /\ lastExtract.called /\ ~lastExtract.raised /\ lastExtract.wrote >= 1
  /\ lastExtract.unit = AllUnits[Len(AllUnits)]

\* C8: every started run reaches completion, whatever the fetches and extractions do.
C8_Terminates ==
  (pass \in {"forecast", "history"}) ~> (pass = "done")

\* a run is complete whose last fetch failed
C8_Witness ==
  /\ pass = "done" /\ Len(fetched) = Len(Cities) * (1 + HistoryDays)
  /\ lastFetch.attempts > 0 /\ lastFetch.ret = None

\* the payload of the extract_and_write call a step from stage "extract" makes
Payload == data.json
PayloadDays == Payload.forecast.forecastday
\* every subscript of lines 77-99 is there
PayloadWellFormed ==
  /\ "location" \in DOMAIN Payload /\ "name" \in DOMAIN Payload.location
  /\ "country" \in DOMAIN Payload.location
  /\ "forecast" \in DOMAIN Payload /\ "forecastday" \in DOMAIN Payload.forecast
  /\ \A k \in DOMAIN PayloadDays :
       /\ DOMAIN PayloadDays[k] = {"date", "day"}
       /\ DOMAIN PayloadDays[k].day = {"mintemp_c", "maxtemp_c", "avghumidity"}
PayloadStem == Replace(Replace(Payload.location.name))
ExpectedType == IF pass = "forecast" THEN "FORECAST" ELSE "HISTORY"

\* C9: a call for a city without a file, with a well-formed payload of n days of pairwise distinct
\* dates, whose file operations succeed, leaves the header and exactly n data rows, the k-th
\* carrying the date of the k-th day and the upper-cased mode as Type.
C9_FirstWriteAppendsEveryDay ==
  [][(/\ stage = "extract"
      /\ PayloadWellFormed
      /\ \A i, j \in DOMAIN PayloadDays : i # j => PayloadDays[i].date # PayloadDays[j].date
      /\ ~files[PayloadStem].exists
      /\ lastExtract'.fault = NoFault)
     => /\ ~lastExtract'.raised
        /\ files'[PayloadStem].exists
        /\ Len(files'[PayloadStem].rows) = 1 + Len(PayloadDays)
        /\ files'[PayloadStem].rows[1] = Header
        /\ \A k \in DOMAIN PayloadDays :
             /\ files'[PayloadStem].rows[k + 1][DateCol] = PayloadDays[k].date
             /\ files'[PayloadStem].rows[k + 1][LocationCol] = Payload.location.name
             /\ files'[PayloadStem].rows[k + 1][TypeCol] = ExpectedType]_vars

\* a forecast of ForecastDays days was written to a file that did not exist
C9_Witness ==
  /\ lastExtract.called /\ ~lastExtract.raised /\ lastExtract.fault = NoFault
  /\ lastExtract.unit.mode = "forecast"
  /\ ~lastExtract.before.exists
  /\ lastExtract.wrote = ForecastDays
  /\ Len(files[lastExtract.path].rows) = 1 + ForecastDays

\* the payload carries no air-quality value
MissingAirQuality ==
  \/ "current" \notin DOMAIN Payload
  \/ "air_quality" \notin DOMAIN Payload.current
  \/ "co" \notin DOMAIN Payload.current.air_quality

\* the keys the duplicate check of the call knows: the ledger of the run, or else the file
SeenKeys ==
  IF Replace(Payload.location.name) \in DOMAIN city_records
  THEN city_records[Replace(Payload.location.name)]
  ELSE {KeyOfRow(DataRows(PayloadStem)[i]) : i \in DOMAIN DataRows(PayloadStem)}
NewDates == {PayloadDays[k].date : k \in {j \in DOMAIN PayloadDays : <<PayloadDays[j].date, ExpectedType>> \notin SeenKeys}}

\* C10: a call with a well-formed payload without air-quality data, whose file operations succeed,
\* appends one row per new forecast day, and every appended row has Air_Quality "N/A".
C10_MissingAirQuality ==
  [][(/\ stage = "extract"
      /\ PayloadWellFormed
      /\ MissingAirQuality
      /\ lastExtract'.fault = NoFault)
     => LET old == DataRows(PayloadStem)
            new == IF files'[PayloadStem].rows = <<>> THEN <<>> ELSE Tail(files'[PayloadStem].rows)
        IN /\ Len(new) = Len(old) + Cardinality(NewDates)
           /\ \A k \in (Len(old) + 1)..Len(new) : new[k][AirQualityCol] = "N/A"]_vars

\* a forecast answer came with a `current` object without air_quality, and its rows were written
C10_Witness ==
  /\ lastExtract.called /\ ~lastExtract.raised /\ lastExtract.wrote = ForecastDays
  /\ lastExtract.unit = FetchedLast
  /\ "current" \in DOMAIN lastFetch.ret.json
  /\ "air_quality" \notin DOMAIN lastFetch.ret.json.current
  /\ LET rows == files[lastExtract.path].rows IN rows[Len(rows)][AirQualityCol] = "N/A"

\* C11: a call of a function decorated with backoff makes at most no_of_retries attempts, sleeps
\* only before a retry (one sleep less than attempts, none after the final failed attempt), and
\* the sleep before the k-th retry lasts initial_delay * 2^(k-1).
C11_RetrySchedule ==
  (lastRetry.called /\ lastRetry.backoff) =>
    /\ lastRetry.attempts <= lastRetry.no_of_retries
    /\ Len(lastRetry.sleeps) = lastRetry.attempts - 1
    /\ \A k \in DOMAIN lastRetry.sleeps : lastRetry.sleeps[k] = lastRetry.initial_delay * 2^(k - 1)

\* the ledger of a city in a ledger map, empty when the city is not in it
LedgerOf(recs, city) == IF city \in DOMAIN recs THEN recs[city] ELSE {}
PayloadCity == Replace(Payload.location.name)
PayloadHasDays ==
  /\ "location" \in DOMAIN Payload /\ "name" \in DOMAIN Payload.location
  /\ "forecast" \in DOMAIN Payload /\ "forecastday" \in DOMAIN Payload.forecast

\* the day at which a call with the open() fault `fault` stops: 1 when the exception comes before
\* the loop, else the first day that lacks a field or whose append raises
FailDay(fault) ==
  IF fault.kind \in {"create", "read"} THEN 1
  ELSE CHOOSE k \in DOMAIN PayloadDays :
         /\ ~DayWellFormed(Payload, PayloadDays[k]) \/ (fault.kind = "append" /\ fault.at = k)
         /\ \A i \in 1..(k - 1) :
              DayWellFormed(Payload, PayloadDays[i]) /\ ~(fault.kind = "append" /\ fault.at = i)

\* the rows the days k..j of the payload append, in order, when the keys in `seen` are known
RECURSIVE RowsOfDays(_, _, _)
RowsOfDays(k, j, seen) ==
  IF k > j THEN <<>>
  ELSE LET row == WriteRow(BuildRow(Payload, PayloadDays[k], pass)) IN
       IF KeyOfRow(row) \in seen THEN RowsOfDays(k + 1, j, seen)
       ELSE <<row>> \o RowsOfDays(k + 1, j, seen \cup {KeyOfRow(row)})

\* C12 (as claimed): a call that ends in a caught exception leaves no data row of its payload in
\* the city file and no key of its payload in the ledger.
C12_WholeUnitSkipped ==
  [][(stage = "extract" /\ PayloadHasDays /\ lastExtract'.raised)
     => /\ DataRows(PayloadStem)' = DataRows(PayloadStem)
        /\ LedgerOf(city_records', PayloadCity) \subseteq SeenKeys]_vars

\* C12 (amended): a call that ends in a caught exception skips the rest of the unit: the rows of
\* the new days before the failing day stay appended, in payload order, and their keys stay in the
\* ledger; the failing day and the days after it add no row and no key.
C12_RestOfUnitSkipped ==
  [][(stage = "extract" /\ PayloadHasDays /\ lastExtract'.raised)
     => LET kept == RowsOfDays(1, FailDay(lastExtract'.fault) - 1, SeenKeys)
        IN /\ DataRows(PayloadStem)' = DataRows(PayloadStem) \o kept
           /\ LedgerOf(city_records', PayloadCity) \ SeenKeys = {KeyOfRow(kept[i]) : i \in DOMAIN kept}
           /\ \A stem \in Stems \ {PayloadStem} : files'[stem] = files[stem]]_vars

\* a forecast call wrote the rows of its first days and then ended in a caught exception
C12_Witness ==
  /\ lastExtract.called /\ lastExtract.raised
  /\ lastExtract.unit.mode = "forecast"
  /\ lastExtract.wrote >= 1
  /\ Len(files[lastExtract.path].rows) > Len(lastExtract.before.rows) + 1

\* the (Date, Type) keys of the data rows of a city file whose Date and Type are non-empty
FileKeys(stem) ==
  {KeyOfRow(DataRows(stem)[i]) :
     i \in {j \in DOMAIN DataRows(stem) : DataRows(stem)[j][DateCol] # "" /\ DataRows(stem)[j][TypeCol] # ""}}

\* C13: whenever a call performs the duplicate check (it wrote or skipped a day), the ledger of
\* the city holds the key of every data row of the city file: the ledger the call found if the
\* city was touched before in the run, whatever the earlier call did, and the ledger it leaves.
C13_HydrationComplete ==
  [][(stage = "extract" /\ PayloadHasDays /\ lastExtract'.wrote + lastExtract'.skipped >= 1)
     => /\ PayloadCity \in DOMAIN city_records => FileKeys(PayloadStem) \subseteq city_records[PayloadCity]
        /\ FileKeys(PayloadStem) \subseteq city_records'[PayloadCity]]_vars

\* fetch_data returned a document
ReturnedData(r) == r # None

\* C14: extract_and_write is called for a unit exactly when its fetch_data returned data: a fetch
\* that returned data hands the same unit to extract_and_write, a fetch that returned none goes
\* on without a call; a fetch changes no file and no ledger, and every call of extract_and_write
\* is for the unit fetched last, with the data that fetch returned.
C14_ExtractOnlyAfterFetch ==
  [][/\ (fetched' # fetched /\ fetched' # <<>>)
        => /\ files' = files /\ city_records' = city_records /\ lastExtract' = lastExtract
           /\ IF ReturnedData(lastFetch'.ret)
              THEN stage' = "extract" /\ CurrentUnit' = CurrentUnit /\ data' = lastFetch'.ret
              ELSE stage' = "fetch"
     /\ (lastExtract' # lastExtract /\ lastExtract'.called)
        => /\ stage = "extract" /\ ReturnedData(data) /\ data = lastFetch.ret
           /\ lastExtract'.unit = FetchedLast
     /\ (files' # files \/ (city_records' # city_records /\ city_records' # EmptyDict))
        => lastExtract' # lastExtract /\ lastExtract'.called]_vars

\* the first fetch of a run returned no data: no file and no ledger came into being, the pass is
\* at the next unit
C14_Witness ==
  /\ fetched = <<Unit("forecast", 0, 1)>>
  /\ lastFetch.attempts > 0 /\ ~ReturnedData(lastFetch.ret)
  /\ stage = "fetch" /\ CurrentUnit = Unit("forecast", 0, 2)
  /\ ~lastExtract.called
  /\ city_records = EmptyDict
  /\ \A stem \in Stems : files[stem].rows = <<>>

\* the positions in `fetched` of the fetch_data calls of a pass
FetchesOf(mode) == {i \in DOMAIN fetched : fetched[i].mode = mode}

\* C15: in every run no unit is fetched twice, every forecast fetch comes before every history
\* fetch, the first history fetch is issued only when every city had its forecast fetch and the
\* last forecast unit, if fetched with success, was extracted; the history fetches are for the
\* cities and the HistoryDays days before today, and a complete run has made Len(Cities) forecast
\* fetches followed by HistoryDays * Len(Cities) history fetches.
C15_PassOrdering ==
  /\ \A i, j \in DOMAIN fetched : i # j => fetched[i] # fetched[j]
  /\ \A i \in FetchesOf("forecast"), j \in FetchesOf("history") : i < j
  /\ FetchesOf("forecast") \cup FetchesOf("history") = DOMAIN fetched
  /\ \A i \in FetchesOf("forecast") : fetched[i].city \in DOMAIN Cities
  /\ \A i \in FetchesOf("history") :
       fetched[i].city \in DOMAIN Cities /\ fetched[i].day \in 1..HistoryDays
  /\ (FetchesOf("history") # {} \/ pass \in {"history", "done"})
       => Cardinality(FetchesOf("forecast")) = Len(Cities)
  /\ (pass = "history" /\ FetchesOf("history") = {} /\ ReturnedData(lastFetch.ret))
       => lastExtract.called /\ lastExtract.unit = FetchedLast
  /\ pass = "done" => Cardinality(FetchesOf("history")) = HistoryDays * Len(Cities)
  /\ (lastExtract.called /\ lastExtract.unit.mode = "history" /\ lastExtract.wrote >= 1)
       => LET rows == files[lastExtract.path].rows
          IN rows[Len(rows)][DateCol] = DateStr(today - lastExtract.unit.day)

\* a run without any failure is complete: the forecast fetches, then the history fetches, the
\* last of them for the third day before today
C15_Witness ==
  /\ pass = "done" /\ dev = 0
  /\ FetchesOf("forecast") = 1..Len(Cities)
  /\ FetchesOf("history") = (Len(Cities) + 1)..(Len(Cities) * (1 + HistoryDays))
  /\ lastExtract.called /\ lastExtract.wrote = 1
  /\ lastExtract.unit = Unit("history", HistoryDays, Len(Cities))

\* the configured city of the current unit, and the file and ledger named from a city string
ConfiguredCity == Cities[ci]
NamedFrom(name) == Replace(name)
PayloadHasName == "location" \in DOMAIN Payload /\ "name" \in DOMAIN Payload.location

\* a call leaves alone every file and every ledger but the ones named `name`
TouchesOnly(name) ==
  /\ \A stem \in Stems \ {NamedFrom(name)} : files'[stem] = files[stem]
  /\ \A city \in DOMAIN city_records' \ {NamedFrom(name)} :
       city \in DOMAIN city_records /\ city_records'[city] = city_records[city]

\* C16 (as claimed): a call for a unit of configured city c writes to no file and changes no
\* ledger but the ones named from c.
C16_FilePerConfiguredCity ==
  [][stage = "extract" => TouchesOnly(ConfiguredCity)]_vars

\* C16 (amended): a call writes to no file and changes no ledger but the ones named from the
\* location name of its payload (nothing at all when the payload has none), every row it appends
\* carries that name as Location, and when the API answers with the configured name this is the
\* file of the configured city.
C16_FilePerPayloadLocation ==
  [][stage = "extract"
     => IF PayloadHasName
        THEN /\ TouchesOnly(Payload.location.name)
             /\ \A k \in (Len(files[NamedFrom(Payload.location.name)].rows) + 1)..
                          Len(files'[NamedFrom(Payload.location.name)].rows) :
                  \/ files'[NamedFrom(Payload.location.name)].rows[k] = Header
                  \/ files'[NamedFrom(Payload.location.name)].rows[k][LocationCol] = Payload.location.name
             /\ Payload.location.name = ConfiguredCity
                  => lastExtract'.path = NamedFrom(ConfiguredCity)
        ELSE files' = files /\ city_records' = city_records]_vars

\* the API answered a unit of one configured city with the location of the other one, and the
\* rows went to the file of that location
C16_Witness ==
  /\ lastExtract.called /\ lastExtract.wrote >= 1
  /\ lastExtract.path # NamedFrom(Cities[lastExtract.unit.city])
  /\ lastExtract.path = NamedFrom(OtherCity(Cities[lastExtract.unit.city]))
  /\ LET rows == files[lastExtract.path].rows
     IN rows[Len(rows)][LocationCol] = OtherCity(Cities[lastExtract.unit.city])

\* C17: every city file that exists and is non-empty starts with the header row, and no other
\* row of it is the header.
C17_HeaderOnce ==
  \A stem \in Stems :
    (files[stem].exists /\ files[stem].rows # <<>>)
    => /\ files[stem].rows[1] = Header
       /\ \A k \in 2..Len(files[stem].rows) : files[stem].rows[k] # Header

\* a second run is complete and has appended rows to a file that the first run created
C17_Witness ==
  /\ run = 2 /\ pass = "done"
  /\ \E stem \in Stems :
       /\ Len(files[stem].rows) > 1 + ForecastDays + HistoryDays
       /\ files[stem].rows[1] = Header
       /\ Cardinality({k \in DOMAIN files[stem].rows : files[stem].rows[k] = Header}) = 1

\* the keys of the forecast days of the payload
PayloadKeys == {<<PayloadDays[k].date, ExpectedType>> : k \in DOMAIN PayloadDays}

====
